---- MODULE Spec2Model ----
(***************************************************************************)
(* Access-control and multisig-proposal engine of ManageHub                *)
(* (contracts/access_control).  The operations are the functions of        *)
(* AccessControlModule, called inside one contract frame as the module's   *)
(* tests call them: a write made before an error return stays written.     *)
(***************************************************************************)
EXTENDS Integers, Sequences, FiniteSets, TLC

(* ------------------------------------------------------------------ *)
(* Input domains                                                      *)
(* ------------------------------------------------------------------ *)

\* Cap on the proposal counter: create_proposal is not called once
\* ProposalCounter has reached it.
MaxProposals == 2

\* Access attempts logged per account
MaxAttempts == 1

Accounts == {"a1", "a2", "a3", "u1"}

NoAddr == "none"

\* UserRole
Guest == 0
Member == 1
Admin == 2

\* Defaults written by initialize_multisig
DefaultTimeLock == 86400
DefaultMaxPending == 50
DefaultExpiry == 604800

\* Lifetime of a pending admin transfer, written by propose_admin_transfer
TransferExpiry == 86400

\* Ledger timestamps the clock is moved to (it only moves forward)
TimePoints == {DefaultTimeLock, DefaultExpiry, DefaultExpiry + 1}

(* ------------------------------------------------------------------ *)
(* Vec helpers                                                        *)
(* ------------------------------------------------------------------ *)

Contains(v, x) == \E i \in 1..Len(v) : v[i] = x

Without(v, x) == SelectSeq(v, LAMBDA y : y # x)

Min(a, b) == IF a < b THEN a ELSE b

Max(a, b) == IF a > b THEN a ELSE b

saturating_sub(a, b) == IF a > b THEN a - b ELSE 0

HasDuplicate(v) == \E i \in 1..Len(v) : \E j \in (i + 1)..Len(v) : v[i] = v[j]

(* ------------------------------------------------------------------ *)
(* Types                                                              *)
(* ------------------------------------------------------------------ *)

\* AccessControlConfig::default()
DefaultConfig ==
    [membership_token_contract |-> <<>>,
     require_membership_for_roles |-> FALSE,
     min_token_balance |-> 0]

\* Membership proof required, token contract set, one token needed
StrictConfig ==
    [membership_token_contract |-> <<"token">>,
     require_membership_for_roles |-> TRUE,
     min_token_balance |-> 1]

\* A configuration that requires membership but names no membership contract
NoTokenConfig ==
    [membership_token_contract |-> <<>>,
     require_membership_for_roles |-> TRUE,
     min_token_balance |-> 1]

MsConfig(admins, req, crit, emerg, lock, maxp, exp) ==
    [admins |-> admins,
     required_signatures |-> req,
     critical_threshold |-> crit,
     emergency_threshold |-> emerg,
     time_lock_duration |-> lock,
     max_pending_proposals |-> maxp,
     proposal_expiry_duration |-> exp]

validate(c) ==
    /\ Len(c.admins) # 0
    /\ c.required_signatures > 0
    /\ c.required_signatures <= Len(c.admins)
    /\ c.critical_threshold >= c.required_signatures
    /\ c.emergency_threshold >= c.critical_threshold
    /\ c.emergency_threshold <= Len(c.admins)
    /\ c.time_lock_duration > 0
    /\ c.max_pending_proposals > 0
    /\ c.proposal_expiry_duration > 0

\* Variant: only the emergency actions are told apart, every other action
\* is Standard
classify_type_flat(action) ==
    IF action.kind \in {"EmergencyPause", "EmergencyAdminTransfer"}
    THEN "Emergency" ELSE "Standard"

classify_type(action) ==
    CASE action.kind = "SetRole" -> "Standard"
      [] action.kind = "UpdateConfig" -> "Critical"
      [] action.kind = "AddAdmin" -> "Critical"
      [] action.kind = "RemoveAdmin" -> "Critical"
      [] action.kind = "Pause" -> "Critical"
      [] action.kind = "Unpause" -> "Standard"
      [] action.kind = "TransferAdmin" -> "Critical"
      [] action.kind = "UpdateMultisigConfig" -> "Critical"
      [] action.kind = "EmergencyPause" -> "Emergency"
      [] action.kind = "BatchBlacklist" -> "Critical"
      [] action.kind = "ScheduleUpgrade" -> "TimeLocked"
      [] action.kind = "EmergencyAdminTransfer" -> "Emergency"

requires_time_lock(proposal_type) == proposal_type \in {"TimeLocked", "Critical"}

\* Variant: Emergency proposals are given the critical threshold
get_required_signatures_no_emergency(c, proposal_type) ==
    IF proposal_type = "Standard" THEN c.required_signatures
    ELSE c.critical_threshold

get_required_signatures(c, proposal_type) ==
    CASE proposal_type = "Standard" -> c.required_signatures
      [] proposal_type \in {"Critical", "TimeLocked"} -> c.critical_threshold
      [] proposal_type = "Emergency" -> c.emergency_threshold

\* ProposalAction values, one record shape for every variant
Action(kind, addr, role, config, ms, users, time) ==
    [kind |-> kind, addr |-> addr, role |-> role, config |-> config,
     ms |-> ms, users |-> users, time |-> time]

NoMs == MsConfig(<<>>, 0, 0, 0, 0, 0, 0)

SetRoleAction(user, role) == Action("SetRole", user, role, DefaultConfig, NoMs, <<>>, 0)
UpdateConfigAction(config) == Action("UpdateConfig", NoAddr, Guest, config, NoMs, <<>>, 0)
AddAdminAction(a) == Action("AddAdmin", a, Guest, DefaultConfig, NoMs, <<>>, 0)
RemoveAdminAction(a) == Action("RemoveAdmin", a, Guest, DefaultConfig, NoMs, <<>>, 0)
PauseAction == Action("Pause", NoAddr, Guest, DefaultConfig, NoMs, <<>>, 0)
UnpauseAction == Action("Unpause", NoAddr, Guest, DefaultConfig, NoMs, <<>>, 0)
TransferAdminAction(a) == Action("TransferAdmin", a, Guest, DefaultConfig, NoMs, <<>>, 0)
UpdateMultisigConfigAction(ms) == Action("UpdateMultisigConfig", NoAddr, Guest, DefaultConfig, ms, <<>>, 0)
EmergencyPauseAction == Action("EmergencyPause", NoAddr, Guest, DefaultConfig, NoMs, <<>>, 0)
BatchBlacklistAction(users) == Action("BatchBlacklist", NoAddr, Guest, DefaultConfig, NoMs, users, 0)
ScheduleUpgradeAction(a, time) == Action("ScheduleUpgrade", a, Guest, DefaultConfig, NoMs, <<>>, time)
EmergencyAdminTransferAction(a) == Action("EmergencyAdminTransfer", a, Guest, DefaultConfig, NoMs, <<>>, 0)

ZeroStats ==
    [total_created |-> 0, total_executed |-> 0, total_rejected |-> 0,
     total_expired |-> 0, pending_count |-> 0]

(* ------------------------------------------------------------------ *)
(* State                                                              *)
(* ------------------------------------------------------------------ *)

VARIABLES
    storage,    \* the contract's persistent storage, one field per DataKey
    now,        \* env.ledger().timestamp()
    ret         \* the last call that wrote to storage: operation, caller,
                \* proposal id, result, returned count

vars == <<storage, now, ret>>

\* Storage of a freshly registered contract: every key absent.  An absent
\* Option key is <<>>, an absent key read with unwrap_or is its default.
EmptyStorage ==
    [UserRole |-> [a \in Accounts |-> Guest],
     Admin |-> <<>>,
     Config |-> DefaultConfig,
     Initialized |-> FALSE,
     Paused |-> FALSE,
     Blacklisted |-> {},
     MultiSigConfig |-> <<>>,
     Proposal |-> <<>>,
     ProposalCounter |-> 0,
     PendingAdminTransfer |-> <<>>,
     ProposalStats |-> ZeroStats,
     PendingProposalsList |-> <<>>,
     EmergencyMode |-> FALSE,
     AccessAttempts |-> [a \in Accounts |-> 0]]

Res(s, err) == [s |-> s, err |-> err]

Ret(op, caller, id, err, val) ==
    [op |-> op, caller |-> caller, id |-> id, err |-> err, val |-> val]

\* Stored proposals: Proposal is a function whose domain is the set of ids
\* that have a record (ids start at 0, so it is not a sequence).
HasProposal(s, id) == id \in DOMAIN s.Proposal

PutProposal(s, id, p) ==
    [s EXCEPT !.Proposal =
        [i \in (DOMAIN s.Proposal) \cup {id} |-> IF i = id THEN p ELSE s.Proposal[i]]]

DelProposal(s, id) ==
    [s EXCEPT !.Proposal = [i \in (DOMAIN s.Proposal) \ {id} |-> s.Proposal[i]]]

(* ------------------------------------------------------------------ *)
(* Module functions over a storage value                              *)
(* ------------------------------------------------------------------ *)

get_role(s, user) == s.UserRole[user]

\* UserRole::has_access: the roles are ordered Guest < Member < Admin
has_access(role, required_role) == role >= required_role

is_admin(s, user) == get_role(s, user) = Admin

is_multisig_enabled(s) == s.MultiSigConfig # <<>>

\* Variant: the caller's role decides in committee mode too
require_admin_by_role(s, caller) == is_admin(s, caller)

\* TRUE when require_admin returns Ok
require_admin(s, caller) ==
    IF s.MultiSigConfig # <<>>
    THEN Contains(s.MultiSigConfig[1].admins, caller)
    ELSE is_admin(s, caller)

\* The reply of the external membership contract to balance_of
BalanceReplies ==
    {[ok |-> FALSE, balance |-> 0], [ok |-> TRUE, balance |-> 0], [ok |-> TRUE, balance |-> 1]}

\* Variant: a missing membership contract is not an error
validate_role_assignment_lenient(s, role, reply) ==
    IF s.Config.require_membership_for_roles /\ role \in {Member, Admin}
    THEN IF s.Config.membership_token_contract # <<>>
         THEN IF ~reply.ok THEN "MembershipTokenCallFailed"
              ELSE IF reply.balance < s.Config.min_token_balance
                   THEN "InsufficientMembership"
                   ELSE "Ok"
         ELSE "Ok"
    ELSE "Ok"

\* The error of validate_role_assignment, "Ok" when it passes
validate_role_assignment(s, role, reply) ==
    IF s.Config.require_membership_for_roles /\ role \in {Member, Admin}
    THEN IF s.Config.membership_token_contract # <<>>
         THEN IF ~reply.ok THEN "MembershipTokenCallFailed"
              ELSE IF reply.balance < s.Config.min_token_balance
                   THEN "InsufficientMembership"
                   ELSE "Ok"
         ELSE "MembershipTokenNotSet"
    ELSE "Ok"

remove_from_pending_list(s, proposal_id) ==
    [s EXCEPT !.PendingProposalsList = Without(s.PendingProposalsList, proposal_id)]

\* Variant: the record of the expired proposal is left in storage
cleanup_expired_proposal_keeps_record(s, proposal_id) ==
    LET s1 == remove_from_pending_list(s, proposal_id)
    IN [s1 EXCEPT !.ProposalStats.total_expired = @ + 1,
                  !.ProposalStats.pending_count = saturating_sub(@, 1)]

cleanup_expired_proposal(s, proposal_id) ==
    LET s1 == DelProposal(remove_from_pending_list(s, proposal_id), proposal_id)
    IN [s1 EXCEPT !.ProposalStats.total_expired = @ + 1,
                  !.ProposalStats.pending_count = saturating_sub(@, 1)]

\* Variant: a proposal expires one second later
is_expired_late(p, t) == t > p.expiry + 1

\* The expiry guard shared by approve, reject and execute
is_expired(p, t) == t > p.expiry

\* Variant: the time-lock is never consulted
time_lock_active_ignored(p, t) == FALSE

\* The time-lock guard of execute_proposal: TRUE while the lock is active
time_lock_active(p, t) ==
    p.time_lock_until # <<>> /\ t < p.time_lock_until[1]

\* Variant: the signature guard always passes
has_enough_approvals_unchecked(p) == TRUE

\* Variant: the signature guard reads the threshold of the configuration in
\* force instead of the one stored in the proposal
has_enough_approvals_current(p) ==
    Len(p.approvals) >=
        get_required_signatures(storage.MultiSigConfig[1], p.proposal_type)

\* Variant: the signature guard asks for one approval more than required
has_enough_approvals_strict(p) == Len(p.approvals) > p.required_signatures

\* The signature guard of execute_proposal
has_enough_approvals(p) == Len(p.approvals) >= p.required_signatures

\* The match over proposal.action in execute_proposal (storage s already
\* holds executed = true for the proposal)
apply_action(s, action, reply) ==
    CASE action.kind = "SetRole" ->
           LET e == validate_role_assignment(s, action.role, reply)
           IN IF e # "Ok" THEN Res(s, e)
              ELSE Res([s EXCEPT !.UserRole[action.addr] = action.role], "Ok")
      [] action.kind = "UpdateConfig" ->
           Res([s EXCEPT !.Config = action.config], "Ok")
      [] action.kind = "Pause" ->
           Res([s EXCEPT !.Paused = TRUE], "Ok")
      [] action.kind = "Unpause" ->
           Res([s EXCEPT !.Paused = FALSE], "Ok")
      [] action.kind = "UpdateMultisigConfig" ->
           IF ~validate(action.ms) THEN Res(s, "InvalidMultisigConfig")
           ELSE Res([s EXCEPT !.MultiSigConfig = <<action.ms>>], "Ok")
      [] action.kind = "EmergencyPause" ->
           Res([s EXCEPT !.Paused = TRUE, !.EmergencyMode = TRUE], "Ok")
      [] action.kind = "BatchBlacklist" ->
           Res([s EXCEPT !.Blacklisted =
                  @ \cup {action.users[i] : i \in 1..Len(action.users)}], "Ok")
      [] action.kind = "AddAdmin" ->
           IF s.MultiSigConfig = <<>> THEN Res(s, "Ok")
           ELSE IF Contains(s.MultiSigConfig[1].admins, action.addr)
                THEN Res(s, "DuplicateAdmin")
                ELSE Res([s EXCEPT !.MultiSigConfig[1].admins = Append(@, action.addr),
                                   !.UserRole[action.addr] = Admin], "Ok")
      [] action.kind = "RemoveAdmin" ->
           IF s.MultiSigConfig = <<>> THEN Res(s, "Ok")
           ELSE IF Len(s.MultiSigConfig[1].admins) <= s.MultiSigConfig[1].emergency_threshold
                THEN Res(s, "CannotRemoveLastAdmin")
                ELSE Res([s EXCEPT !.MultiSigConfig[1].admins = Without(@, action.addr),
                                   !.UserRole[action.addr] = Guest], "Ok")
      [] OTHER -> Res(s, "InvalidProposalType")

\* Variant: the executed counter is not raised
finish_execution_uncounted(s, proposal_id) ==
    LET s1 == remove_from_pending_list(s, proposal_id)
    IN [s1 EXCEPT !.ProposalStats.pending_count = saturating_sub(@, 1)]

\* The tail of execute_proposal: pending list and statistics
finish_execution(s, proposal_id) ==
    LET s1 == remove_from_pending_list(s, proposal_id)
    IN [s1 EXCEPT !.ProposalStats.total_executed = @ + 1,
                  !.ProposalStats.pending_count = saturating_sub(@, 1)]

execute_proposal(s, proposal_id, t, reply) ==
    IF ~HasProposal(s, proposal_id) THEN Res(s, "ProposalNotFound")
    ELSE LET p == s.Proposal[proposal_id] IN
         IF p.executed THEN Res(s, "ProposalAlreadyExecuted")
         ELSE IF is_expired(p, t)
              THEN Res(cleanup_expired_proposal(s, proposal_id), "ProposalExpired")
         ELSE IF time_lock_active(p, t) THEN Res(s, "TimeLockActive")
         ELSE IF ~has_enough_approvals(p) THEN Res(s, "InsufficientApprovals")
         ELSE LET s1 == [s EXCEPT !.Proposal[proposal_id].executed = TRUE]
                  r == apply_action(s1, p.action, reply)
              IN IF r.err # "Ok" THEN r
                 ELSE Res(finish_execution(r.s, proposal_id), "Ok")

\* The PendingProposal record built by create_proposal
new_proposal(c, proposal_id, proposer, action, t) ==
    LET proposal_type == classify_type(action) IN
    [id |-> proposal_id,
     proposer |-> proposer,
     action |-> action,
     proposal_type |-> proposal_type,
     approvals |-> <<proposer>>,
     rejections |-> <<>>,
     executed |-> FALSE,
     created_at |-> t,
     expiry |-> t + c.proposal_expiry_duration,
     time_lock_until |-> IF requires_time_lock(proposal_type)
                         THEN <<t + c.time_lock_duration>> ELSE <<>>,
     required_signatures |-> get_required_signatures(c, proposal_type)]

\* Variant: the limit is refused only once it has been exceeded
max_proposals_reached_exclusive(s, c) ==
    s.ProposalStats.pending_count > c.max_pending_proposals

\* The pending-limit guard of create_proposal
max_proposals_reached(s, c) == s.ProposalStats.pending_count >= c.max_pending_proposals

\* Result has the allocated id in val (-1 when none was allocated)
create_proposal(s, proposer, action, t, reply) ==
    IF ~require_admin(s, proposer) THEN [s |-> s, err |-> "AdminRequired", id |-> -1]
    ELSE IF s.MultiSigConfig = <<>> THEN [s |-> s, err |-> "MultisigNotEnabled", id |-> -1]
    ELSE LET c == s.MultiSigConfig[1] IN
         IF max_proposals_reached(s, c)
         THEN [s |-> s, err |-> "MaxProposalsReached", id |-> -1]
         ELSE LET proposal_id == s.ProposalCounter
                  p == new_proposal(c, proposal_id, proposer, action, t)
                  s1 == PutProposal(s, proposal_id, p)
                  s2 == [s1 EXCEPT !.ProposalCounter = proposal_id + 1,
                                   !.PendingProposalsList = Append(@, proposal_id),
                                   !.ProposalStats.total_created = @ + 1,
                                   !.ProposalStats.pending_count = @ + 1]
              IN IF p.time_lock_until = <<>> /\ Len(p.approvals) >= p.required_signatures
                 THEN LET r == execute_proposal(s2, proposal_id, t, reply)
                      IN [s |-> r.s, err |-> r.err, id |-> proposal_id]
                 ELSE [s |-> s2, err |-> "Ok", id |-> proposal_id]

\* Variant: an earlier rejection does not block an approval
approve_vote_error_switch(p, approver) ==
    IF Contains(p.approvals, approver) THEN "AlreadyApproved" ELSE "Ok"

\* The vote guards of approve_proposal: the error, "Ok" when the vote is new
approve_vote_error(p, approver) ==
    IF Contains(p.approvals, approver) THEN "AlreadyApproved"
    ELSE IF Contains(p.rejections, approver) THEN "AlreadyRejected"
    ELSE "Ok"

approve_proposal(s, approver, proposal_id, t, reply) ==
    IF ~require_admin(s, approver) THEN Res(s, "AdminRequired")
    ELSE IF ~HasProposal(s, proposal_id) THEN Res(s, "ProposalNotFound")
    ELSE LET p == s.Proposal[proposal_id] IN
         IF p.executed THEN Res(s, "ProposalAlreadyExecuted")
         ELSE IF is_expired(p, t)
              THEN Res(cleanup_expired_proposal(s, proposal_id), "ProposalExpired")
         ELSE IF approve_vote_error(p, approver) # "Ok"
              THEN Res(s, approve_vote_error(p, approver))
         ELSE LET p1 == [p EXCEPT !.approvals = Append(@, approver)]
                  s1 == PutProposal(s, proposal_id, p1)
                  can_execute == Len(p1.approvals) >= p1.required_signatures
                  time_lock_passed == IF p1.time_lock_until # <<>>
                                      THEN t >= p1.time_lock_until[1] ELSE TRUE
              IN IF can_execute /\ time_lock_passed
                 THEN execute_proposal(s1, proposal_id, t, reply)
                 ELSE Res(s1, "Ok")

\* Variant: the floor of one rejection is missing
rejection_threshold_no_floor(c) == Len(c.admins) \div 3

rejection_threshold(c) == Max(Len(c.admins) \div 3, 1)

\* Variant: an earlier approval does not block a rejection
reject_vote_error_switch(p, rejecter) ==
    IF Contains(p.rejections, rejecter) THEN "AlreadyRejected" ELSE "Ok"

\* The vote guards of reject_proposal
reject_vote_error(p, rejecter) ==
    IF Contains(p.rejections, rejecter) THEN "AlreadyRejected"
    ELSE IF Contains(p.approvals, rejecter) THEN "AlreadyApproved"
    ELSE "Ok"

reject_proposal(s, rejecter, proposal_id, t) ==
    IF ~require_admin(s, rejecter) THEN Res(s, "AdminRequired")
    ELSE IF ~HasProposal(s, proposal_id) THEN Res(s, "ProposalNotFound")
    ELSE LET p == s.Proposal[proposal_id] IN
         IF p.executed THEN Res(s, "ProposalAlreadyExecuted")
         ELSE IF is_expired(p, t)
              THEN Res(cleanup_expired_proposal(s, proposal_id), "ProposalExpired")
         ELSE IF reject_vote_error(p, rejecter) # "Ok"
              THEN Res(s, reject_vote_error(p, rejecter))
         ELSE IF s.MultiSigConfig = <<>> THEN Res(s, "MultisigNotEnabled")
         ELSE LET p1 == [p EXCEPT !.rejections = Append(@, rejecter)] IN
              IF Len(p1.rejections) > rejection_threshold(s.MultiSigConfig[1])
              THEN LET s1 == DelProposal(remove_from_pending_list(s, proposal_id), proposal_id)
                   IN Res([s1 EXCEPT !.ProposalStats.total_rejected = @ + 1,
                                     !.ProposalStats.pending_count = saturating_sub(@, 1)],
                          "ProposalRejected")
              ELSE Res(PutProposal(s, proposal_id, p1), "Ok")

\* Variant: the caller is not compared with the proposer
cancel_proposal_by_anyone(s, proposer, proposal_id) ==
    IF ~HasProposal(s, proposal_id) THEN Res(s, "ProposalNotFound")
    ELSE IF s.Proposal[proposal_id].executed THEN Res(s, "ProposalAlreadyExecuted")
    ELSE LET s1 == DelProposal(remove_from_pending_list(s, proposal_id), proposal_id)
         IN Res([s1 EXCEPT !.ProposalStats.pending_count = saturating_sub(@, 1)], "Ok")

cancel_proposal(s, proposer, proposal_id) ==
    IF ~HasProposal(s, proposal_id) THEN Res(s, "ProposalNotFound")
    ELSE LET p == s.Proposal[proposal_id] IN
         IF p.proposer # proposer THEN Res(s, "Unauthorized")
         ELSE IF p.executed THEN Res(s, "ProposalAlreadyExecuted")
         ELSE LET s1 == DelProposal(remove_from_pending_list(s, proposal_id), proposal_id)
              IN Res([s1 EXCEPT !.ProposalStats.pending_count = saturating_sub(@, 1)], "Ok")

\* Variant: the sweep also removes executed proposals
sweepable_any(p, t) == t > p.expiry

\* Variant: a proposal is swept from the instant of its expiry
sweepable_inclusive(p, t) == t >= p.expiry /\ ~p.executed

\* The condition under which the sweep removes a proposal
sweepable(p, t) == t > p.expiry /\ ~p.executed

\* The loop of cleanup_expired_proposals over the pending list read at
\* entry: [s, count] after visiting ids[1..Len(ids)]
RECURSIVE cleanup_loop(_, _, _, _)
cleanup_loop(s, ids, t, count) ==
    IF ids = <<>> THEN [s |-> s, count |-> count]
    ELSE LET proposal_id == Head(ids) IN
         IF HasProposal(s, proposal_id) /\ sweepable(s.Proposal[proposal_id], t)
         THEN cleanup_loop(cleanup_expired_proposal(s, proposal_id), Tail(ids), t, count + 1)
         ELSE cleanup_loop(s, Tail(ids), t, count)

cleanup_expired_proposals(s, t) == cleanup_loop(s, s.PendingProposalsList, t, 0)

\* Variant: the initialized flag is not consulted
initialize_unguarded(s, admin, config) ==
    Res([s EXCEPT !.Admin = <<admin>>,
                  !.UserRole[admin] = Admin,
                  !.Config = config,
                  !.Initialized = TRUE,
                  !.Paused = FALSE,
                  !.ProposalCounter = 0], "Ok")

initialize(s, admin, config) ==
    IF s.Initialized THEN Res(s, "ConfigurationError")
    ELSE Res([s EXCEPT !.Admin = <<admin>>,
                       !.UserRole[admin] = Admin,
                       !.Config = config,
                       !.Initialized = TRUE,
                       !.Paused = FALSE,
                       !.ProposalCounter = 0], "Ok")

initialize_multisig(s, admins, required_signatures, config) ==
    IF s.Initialized THEN Res(s, "ConfigurationError")
    ELSE IF Len(admins) = 0 \/ required_signatures = 0 \/ required_signatures > Len(admins)
         THEN Res(s, "InvalidAddress")
    ELSE IF HasDuplicate(admins) THEN Res(s, "DuplicateAdmin")
    ELSE LET critical_threshold == Min(required_signatures + 1, Len(admins))
             emergency_threshold == Min(critical_threshold + 1, Len(admins))
             c == MsConfig(admins, required_signatures, critical_threshold,
                           emergency_threshold, DefaultTimeLock, DefaultMaxPending,
                           DefaultExpiry)
         IN IF ~validate(c) THEN Res(s, "InvalidMultisigConfig")
            ELSE Res([s EXCEPT !.MultiSigConfig = <<c>>,
                               !.UserRole = [a \in Accounts |->
                                    IF Contains(admins, a) THEN Admin ELSE @[a]],
                               !.Config = config,
                               !.Initialized = TRUE,
                               !.Paused = FALSE,
                               !.ProposalCounter = 0,
                               !.ProposalStats = ZeroStats,
                               !.PendingProposalsList = <<>>], "Ok")

is_blacklisted(s, user) == user \in s.Blacklisted

\* Variant: the blacklist of the target account is not consulted
set_role_blacklist_unchecked(s, caller, user, role, reply) ==
    IF ~s.Initialized THEN Res(s, "NotInitialized")
    ELSE IF s.Paused THEN Res(s, "ContractPaused")
    ELSE IF ~require_admin(s, caller) THEN Res(s, "AdminRequired")
    ELSE IF validate_role_assignment(s, role, reply) # "Ok"
         THEN Res(s, validate_role_assignment(s, role, reply))
    ELSE Res([s EXCEPT !.UserRole[user] = role], "Ok")

set_role(s, caller, user, role, reply) ==
    IF ~s.Initialized THEN Res(s, "NotInitialized")
    ELSE IF s.Paused THEN Res(s, "ContractPaused")
    ELSE IF is_blacklisted(s, user) THEN Res(s, "Unauthorized")
    ELSE IF ~require_admin(s, caller) THEN Res(s, "AdminRequired")
    ELSE IF validate_role_assignment(s, role, reply) # "Ok"
         THEN Res(s, validate_role_assignment(s, role, reply))
    ELSE Res([s EXCEPT !.UserRole[user] = role], "Ok")

\* The error of validate_membership_access, "Ok" when it passes: unlike
\* validate_role_assignment it passes when no membership contract is set
validate_membership_access(s, required_role, reply) ==
    IF s.Config.require_membership_for_roles /\ required_role \in {Member, Admin}
    THEN IF s.Config.membership_token_contract # <<>>
         THEN IF ~reply.ok THEN "MembershipTokenCallFailed"
              ELSE IF reply.balance < s.Config.min_token_balance
                   THEN "InsufficientMembership"
                   ELSE "Ok"
         ELSE "Ok"
    ELSE "Ok"

log_access_attempt(s, user) == [s EXCEPT !.AccessAttempts[user] = @ + 1]

\* check_access: val is the returned bool when err is "Ok"
check_access(s, user, required_role, reply) ==
    IF ~s.Initialized THEN [s |-> s, err |-> "NotInitialized", val |-> FALSE]
    ELSE IF s.Paused THEN [s |-> s, err |-> "ContractPaused", val |-> FALSE]
    ELSE IF is_blacklisted(s, user) THEN [s |-> s, err |-> "Ok", val |-> FALSE]
    ELSE IF ~has_access(get_role(s, user), required_role)
         THEN [s |-> log_access_attempt(s, user), err |-> "Ok", val |-> FALSE]
    ELSE [s |-> log_access_attempt(s, user), err |-> "Ok",
          val |-> validate_membership_access(s, required_role, reply) = "Ok"]

\* Variant: the committee-mode refusal is missing
update_config_any_mode(s, caller, config) ==
    IF ~require_admin(s, caller) THEN Res(s, "AdminRequired")
    ELSE Res([s EXCEPT !.Config = config], "Ok")

update_config(s, caller, config) ==
    IF is_multisig_enabled(s) THEN Res(s, "AdminRequired")
    ELSE IF ~require_admin(s, caller) THEN Res(s, "AdminRequired")
    ELSE Res([s EXCEPT !.Config = config], "Ok")

pause(s, caller) ==
    IF is_multisig_enabled(s) THEN Res(s, "AdminRequired")
    ELSE IF ~require_admin(s, caller) THEN Res(s, "AdminRequired")
    ELSE Res([s EXCEPT !.Paused = TRUE], "Ok")

unpause(s, caller) ==
    IF is_multisig_enabled(s) THEN Res(s, "AdminRequired")
    ELSE IF ~require_admin(s, caller) THEN Res(s, "AdminRequired")
    ELSE Res([s EXCEPT !.Paused = FALSE], "Ok")

\* Variant: the committee-mode refusal is missing
propose_admin_transfer_any_mode(s, current_admin, new_admin, t) ==
    IF ~require_admin(s, current_admin) THEN Res(s, "AdminRequired")
    ELSE IF current_admin = new_admin THEN Res(s, "InvalidAddress")
    ELSE Res([s EXCEPT !.PendingAdminTransfer =
                 <<[proposed_admin |-> new_admin,
                    proposer |-> current_admin,
                    expiry |-> t + TransferExpiry]>>], "Ok")

propose_admin_transfer(s, current_admin, new_admin, t) ==
    IF ~require_admin(s, current_admin) THEN Res(s, "AdminRequired")
    ELSE IF current_admin = new_admin THEN Res(s, "InvalidAddress")
    ELSE IF is_multisig_enabled(s) THEN Res(s, "InvalidAddress")
    ELSE Res([s EXCEPT !.PendingAdminTransfer =
                 <<[proposed_admin |-> new_admin,
                    proposer |-> current_admin,
                    expiry |-> t + TransferExpiry]>>], "Ok")

\* The expiry guard of accept_admin_transfer
transfer_expired(pending, t) == t > pending.expiry

accept_admin_transfer(s, new_admin, t) ==
    IF s.PendingAdminTransfer = <<>> THEN Res(s, "InvalidAddress")
    ELSE IF s.PendingAdminTransfer[1].proposed_admin # new_admin
         THEN Res(s, "Unauthorized")
    ELSE IF transfer_expired(s.PendingAdminTransfer[1], t) THEN Res(s, "InvalidAddress")
    ELSE IF s.Admin = <<>> THEN Res(s, "AdminRequired")
    ELSE LET old_admin == s.Admin[1]
             s1 == [s EXCEPT !.Admin = <<new_admin>>, !.UserRole[new_admin] = Admin]
             s2 == [s1 EXCEPT !.UserRole[old_admin] = Guest]
         IN Res([s2 EXCEPT !.PendingAdminTransfer = <<>>], "Ok")

cancel_admin_transfer(s, current_admin) ==
    IF ~require_admin(s, current_admin) THEN Res(s, "AdminRequired")
    ELSE IF s.PendingAdminTransfer = <<>> THEN Res(s, "InvalidAddress")
    ELSE IF s.PendingAdminTransfer[1].proposer # current_admin
         THEN Res(s, "Unauthorized")
    ELSE Res([s EXCEPT !.PendingAdminTransfer = <<>>], "Ok")

remove_role(s, caller, user) ==
    IF ~require_admin(s, caller) THEN Res(s, "AdminRequired")
    ELSE IF s.Admin # <<>> /\ user = s.Admin[1] THEN Res(s, "RoleHierarchyViolation")
    ELSE IF caller = user /\ get_role(s, user) = Admin
         THEN Res(s, "RoleHierarchyViolation")
    ELSE Res([s EXCEPT !.UserRole[user] = Guest], "Ok")

blacklist_user(s, caller, user) ==
    IF ~require_admin(s, caller) THEN Res(s, "AdminRequired")
    ELSE Res([s EXCEPT !.Blacklisted = @ \cup {user}], "Ok")

unblacklist_user(s, caller, user) ==
    IF ~require_admin(s, caller) THEN Res(s, "AdminRequired")
    ELSE Res([s EXCEPT !.Blacklisted = @ \ {user}], "Ok")

is_emergency_mode(s) == s.EmergencyMode

\* Variant: the committee-mode refusal is missing
deactivate_emergency_mode_any_mode(s, caller) ==
    IF ~require_admin(s, caller) THEN Res(s, "AdminRequired")
    ELSE Res([s EXCEPT !.EmergencyMode = FALSE], "Ok")

deactivate_emergency_mode(s, caller) ==
    IF ~require_admin(s, caller) THEN Res(s, "AdminRequired")
    ELSE IF is_multisig_enabled(s) THEN Res(s, "AdminRequired")
    ELSE Res([s EXCEPT !.EmergencyMode = FALSE], "Ok")

(* ------------------------------------------------------------------ *)
(* Calls                                                              *)
(* ------------------------------------------------------------------ *)

\* A call that wrote nothing leaves the state as it is; a call that wrote
\* is recorded in ret together with its result.
Effect(s, r) ==
    /\ storage' = s
    /\ ret' = IF s = storage THEN ret ELSE r
    /\ UNCHANGED now

\* The membership contract is called only under a configuration that
\* names it; otherwise no reply is read.
RepliesOf(s) ==
    IF s.Config.require_membership_for_roles /\ s.Config.membership_token_contract # <<>>
    THEN BalanceReplies
    ELSE {[ok |-> TRUE, balance |-> 0]}

ProposalIds == 0..(MaxProposals - 1)

Initialize(Admins, Configs) ==
    \E admin \in Admins, config \in Configs :
        LET r == initialize(storage, admin, config)
        IN Effect(r.s, Ret("initialize", admin, -1, r.err, 0))

InitializeMultisig(Inputs) ==
    \E i \in Inputs :
        LET r == initialize_multisig(storage, i.admins, i.required_signatures, i.config)
        IN Effect(r.s, Ret("initialize_multisig", NoAddr, -1, r.err, i.required_signatures))

CreateProposal(Proposers, Actions) ==
    /\ storage.ProposalCounter < MaxProposals
    /\ \E proposer \in Proposers, action \in Actions, reply \in RepliesOf(storage) :
        LET r == create_proposal(storage, proposer, action, now, reply)
        IN Effect(r.s, Ret("create_proposal", proposer, r.id, r.err, 0))

\* create_proposal called before timestamp Deadline
CreateProposalBefore(Deadline, Proposers, Actions) ==
    /\ now < Deadline
    /\ CreateProposal(Proposers, Actions)

\* create_proposal called while fewer than Limit ids have been allocated
CreateProposalWithin(Limit, Proposers, Actions) ==
    /\ storage.ProposalCounter < Limit
    /\ \E proposer \in Proposers, action \in Actions, reply \in RepliesOf(storage) :
        LET r == create_proposal(storage, proposer, action, now, reply)
        IN Effect(r.s, Ret("create_proposal", proposer, r.id, r.err, 0))

ApproveProposal ==
    \E approver \in Accounts, proposal_id \in ProposalIds, reply \in RepliesOf(storage) :
        LET r == approve_proposal(storage, approver, proposal_id, now, reply)
        IN Effect(r.s, Ret("approve_proposal", approver, proposal_id, r.err, 0))

RejectProposal ==
    \E rejecter \in Accounts, proposal_id \in ProposalIds :
        LET r == reject_proposal(storage, rejecter, proposal_id, now)
        IN Effect(r.s, Ret("reject_proposal", rejecter, proposal_id, r.err, 0))

CancelProposal ==
    \E proposer \in Accounts, proposal_id \in ProposalIds :
        LET r == cancel_proposal(storage, proposer, proposal_id)
        IN Effect(r.s, Ret("cancel_proposal", proposer, proposal_id, r.err, 0))

ExecuteProposal ==
    \E proposal_id \in ProposalIds, reply \in RepliesOf(storage) :
        LET r == execute_proposal(storage, proposal_id, now, reply)
        IN Effect(r.s, Ret("execute_proposal", NoAddr, proposal_id, r.err, 0))

CleanupExpiredProposals ==
    LET r == cleanup_expired_proposals(storage, now)
    IN Effect(r.s, Ret("cleanup_expired_proposals", NoAddr, -1, "Ok", r.count))

SetRole(Callers, Users, Roles) ==
    \E caller \in Callers, user \in Users, role \in Roles, reply \in RepliesOf(storage) :
        LET r == set_role(storage, caller, user, role, reply)
        IN Effect(r.s, Ret("set_role", caller, -1, r.err, role))

RemoveRole(Callers, Users) ==
    \E caller \in Callers, user \in Users :
        LET r == remove_role(storage, caller, user)
        IN Effect(r.s, Ret("remove_role", caller, -1, r.err, 0))

UpdateConfig(Callers, Configs) ==
    \E caller \in Callers, config \in Configs :
        LET r == update_config(storage, caller, config)
        IN Effect(r.s, Ret("update_config", caller, -1, r.err, 0))

Pause(Callers) ==
    \E caller \in Callers :
        LET r == pause(storage, caller)
        IN Effect(r.s, Ret("pause", caller, -1, r.err, 0))

Unpause(Callers) ==
    \E caller \in Callers :
        LET r == unpause(storage, caller)
        IN Effect(r.s, Ret("unpause", caller, -1, r.err, 0))

ProposeAdminTransfer(Callers, NewAdmins) ==
    \E current_admin \in Callers, new_admin \in NewAdmins :
        LET r == propose_admin_transfer(storage, current_admin, new_admin, now)
        IN Effect(r.s, Ret("propose_admin_transfer", current_admin, -1, r.err, 0))

AcceptAdminTransfer(Callers) ==
    \E new_admin \in Callers :
        LET r == accept_admin_transfer(storage, new_admin, now)
        IN Effect(r.s, Ret("accept_admin_transfer", new_admin, -1, r.err, 0))

CancelAdminTransfer(Callers) ==
    \E current_admin \in Callers :
        LET r == cancel_admin_transfer(storage, current_admin)
        IN Effect(r.s, Ret("cancel_admin_transfer", current_admin, -1, r.err, 0))

BlacklistUser(Callers, Users) ==
    \E caller \in Callers, user \in Users :
        LET r == blacklist_user(storage, caller, user)
        IN Effect(r.s, Ret("blacklist_user", caller, -1, r.err, 0))

UnblacklistUser(Callers, Users) ==
    \E caller \in Callers, user \in Users :
        LET r == unblacklist_user(storage, caller, user)
        IN Effect(r.s, Ret("unblacklist_user", caller, -1, r.err, 0))

\* check_access called while the user's attempt counter is below MaxAttempts
CheckAccess(Users, Roles) ==
    \E user \in Users, required_role \in Roles, reply \in RepliesOf(storage) :
        /\ storage.AccessAttempts[user] < MaxAttempts
        /\ LET r == check_access(storage, user, required_role, reply)
           IN Effect(r.s, Ret("check_access", user, -1, r.err, IF r.val THEN 1 ELSE 0))

DeactivateEmergencyMode(Callers) ==
    \E caller \in Callers :
        LET r == deactivate_emergency_mode(storage, caller)
        IN Effect(r.s, Ret("deactivate_emergency_mode", caller, -1, r.err, 0))

\* The ledger closes: the timestamp moves forward
AdvanceTime(Points) ==
    /\ \E t \in Points : t > now /\ now' = t
    /\ UNCHANGED <<storage, ret>>

(* ------------------------------------------------------------------ *)
(* Specification                                                      *)
(* ------------------------------------------------------------------ *)

Init ==
    /\ storage = EmptyStorage
    /\ now = 0
    /\ ret = Ret("none", NoAddr, -1, "Ok", 0)

MsInput(admins, required_signatures, config) ==
    [admins |-> admins, required_signatures |-> required_signatures, config |-> config]

\* Arguments of initialize_multisig: accepted and refused ones
MultisigInputs ==
    {MsInput(<<"a1", "a2", "a3">>, 2, DefaultConfig),
     MsInput(<<"a1", "a2">>, 1, StrictConfig),
     MsInput(<<"a1", "a2">>, 3, DefaultConfig),
     MsInput(<<"a1", "a1">>, 1, DefaultConfig),
     MsInput(<<>>, 0, DefaultConfig)}

\* Multisig configurations proposed through UpdateMultisigConfig:
\* higher thresholds,
TightMs ==
    MsConfig(<<"a1", "a2", "a3">>, 3, 3, 3, DefaultTimeLock, DefaultMaxPending, DefaultExpiry)
\* lower thresholds and an admin list that names an account twice,
DupMs ==
    MsConfig(<<"a1", "a1", "a2">>, 1, 2, 2, DefaultTimeLock, DefaultMaxPending, DefaultExpiry)
\* a zero threshold.
BadMs ==
    MsConfig(<<"a1", "a2">>, 0, 1, 1, DefaultTimeLock, DefaultMaxPending, DefaultExpiry)

ProposalActions ==
    {SetRoleAction("u1", Member),
     PauseAction,
     ScheduleUpgradeAction("u1", 0),
     EmergencyPauseAction}

Next ==
    \/ Initialize({"a1"}, {DefaultConfig})
    \/ InitializeMultisig(MultisigInputs)
    \/ CreateProposal({"a1", "u1"}, ProposalActions)
    \/ ApproveProposal
    \/ RejectProposal
    \/ CancelProposal
    \/ ExecuteProposal
    \/ CleanupExpiredProposals
    \/ AdvanceTime(TimePoints)

Spec == Init /\ [][Next]_vars

\* The committee and its thresholds change under pending proposals
CommitteeInputs ==
    {MsInput(<<"a1", "a2", "a3">>, 2, DefaultConfig),
     MsInput(<<"a1", "a2">>, 1, DefaultConfig)}

CommitteeActions ==
    {SetRoleAction("u1", Member),
     AddAdminAction("a3"),
     RemoveAdminAction("a1"),
     UpdateMultisigConfigAction(TightMs),
     UpdateMultisigConfigAction(DupMs),
     UpdateMultisigConfigAction(BadMs)}

NextCommittee ==
    \/ InitializeMultisig(CommitteeInputs)
    \/ CreateProposal({"a1"}, CommitteeActions)
    \/ ApproveProposal
    \/ RejectProposal
    \/ CancelProposal
    \/ ExecuteProposal
    \/ CleanupExpiredProposals
    \/ AdvanceTime({DefaultTimeLock, DefaultExpiry + 1})

SpecCommittee == Init /\ [][NextCommittee]_vars

\* Committees of two, three and four members initialized with the default
\* thresholds, and every kind of action proposed to them
ThresholdInputs ==
    {MsInput(<<"a1", "a2">>, 1, DefaultConfig),
     MsInput(<<"a1", "a2", "a3">>, 1, DefaultConfig),
     MsInput(<<"a1", "a2", "a3">>, 3, DefaultConfig),
     MsInput(<<"a1", "a2", "a3", "u1">>, 1, DefaultConfig),
     MsInput(<<"a1", "a2", "a3", "u1">>, 2, DefaultConfig),
     MsInput(<<"a1", "a2", "a3", "u1">>, 4, DefaultConfig),
     MsInput(<<"a1", "a2", "a3", "u1">>, 5, DefaultConfig)}

AllActions ==
    {SetRoleAction("u1", Member),
     UpdateConfigAction(StrictConfig),
     AddAdminAction("a3"),
     RemoveAdminAction("a2"),
     PauseAction,
     UnpauseAction,
     TransferAdminAction("a2"),
     UpdateMultisigConfigAction(TightMs),
     EmergencyPauseAction,
     BatchBlacklistAction(<<"u1">>),
     ScheduleUpgradeAction("u1", 0),
     EmergencyAdminTransferAction("a2")}

NextThresholds ==
    \/ InitializeMultisig(ThresholdInputs)
    \/ CreateProposal({"a1"}, AllActions)
    \/ ApproveProposal

SpecThresholds == Init /\ [][NextThresholds]_vars

\* A committee that lowers max_pending_proposals to one while proposals
\* are pending
MaxLimitProposals == 3

LimitInputs == {MsInput(<<"a1", "a2", "a3">>, 2, DefaultConfig)}

SmallMs ==
    MsConfig(<<"a1", "a2", "a3">>, 2, 3, 3, DefaultTimeLock, 1, DefaultExpiry)

LimitActions == {UpdateMultisigConfigAction(SmallMs), SetRoleAction("u1", Member)}

NextLimit ==
    \/ InitializeMultisig(LimitInputs)
    \/ CreateProposalWithin(MaxLimitProposals, {"a1", "a2"}, LimitActions)
    \/ ApproveProposal
    \/ CancelProposal
    \/ AdvanceTime({DefaultTimeLock})

SpecLimit == Init /\ [][NextLimit]_vars

\* Single-admin deployment: a1 initializes and administers directly; u1 and
\* a2 are the accounts roles, blacklisting and admin transfers are applied to.
TransferPoints == {TransferExpiry, TransferExpiry + 1}

NextSingle ==
    \/ Initialize({"a1"}, {DefaultConfig, StrictConfig})
    \/ SetRole({"a1", "u1"}, {"a2", "u1"}, {Member, Admin})
    \/ RemoveRole({"a1"}, {"u1"})
    \/ UpdateConfig({"a1"}, {StrictConfig, NoTokenConfig})
    \/ Pause({"a1"})
    \/ Unpause({"a1"})
    \/ ProposeAdminTransfer({"a1", "u1"}, {"a1", "a2"})
    \/ AcceptAdminTransfer({"a1", "a2"})
    \/ CancelAdminTransfer({"a1"})
    \/ BlacklistUser({"a1"}, {"u1"})
    \/ UnblacklistUser({"a1"}, {"u1"})
    \/ CheckAccess({"u1"}, {Member})
    \/ DeactivateEmergencyMode({"a1"})
    \/ AdvanceTime(TransferPoints)

SpecSingle == Init /\ [][NextSingle]_vars

\* Committee deployment whose membership policy and pause flag are changed:
\* two members, every proposal needs both, the policy starts permissive.
PolicyInputs == {MsInput(<<"a1", "a2">>, 2, DefaultConfig)}

PolicyActions ==
    {SetRoleAction("u1", Member), UpdateConfigAction(StrictConfig),
     UpdateConfigAction(NoTokenConfig), PauseAction, UnpauseAction,
     EmergencyPauseAction}

NextPolicy ==
    \/ InitializeMultisig(PolicyInputs)
    \/ CreateProposal({"a1", "u1"}, PolicyActions)
    \/ ApproveProposal
    \/ ExecuteProposal
    \/ UpdateConfig({"a1", "u1"}, {StrictConfig})
    \/ Pause({"a1", "u1"})
    \/ Unpause({"a1", "u1"})
    \/ DeactivateEmergencyMode({"a1", "u1"})
    \/ AdvanceTime({DefaultTimeLock})

SpecPolicy == Init /\ [][NextPolicy]_vars

\* Committee of exactly two members whose configuration is replaced by
\* executed UpdateMultisigConfig proposals: another pair of members,
SwapMs ==
    MsConfig(<<"a2", "a3">>, 2, 2, 2, DefaultTimeLock, DefaultMaxPending, DefaultExpiry)
\* a time-lock longer than the lifetime of a proposal.
LongLockMs ==
    MsConfig(<<"a1", "a2">>, 2, 2, 2, DefaultExpiry, DefaultMaxPending, DefaultTimeLock)

PairInputs == {MsInput(<<"a1", "a2">>, 2, DefaultConfig)}

PairActions ==
    {SetRoleAction("u1", Member),
     UpdateMultisigConfigAction(SwapMs),
     UpdateMultisigConfigAction(LongLockMs)}

NextPair ==
    \/ InitializeMultisig(PairInputs)
    \/ CreateProposal({"a1", "a2"}, PairActions)
    \/ ApproveProposal
    \/ RejectProposal
    \/ ExecuteProposal
    \/ AdvanceTime({DefaultTimeLock})

SpecPair == Init /\ [][NextPair]_vars

\* A deployment of either mode on which the direct operations and the
\* proposal engine are both called
ModeActions == {SetRoleAction("u1", Member), PauseAction}

NextModes ==
    \/ Initialize({"a1"}, {DefaultConfig})
    \/ InitializeMultisig(PairInputs)
    \/ SetRole({"a1"}, {"a1", "a2", "u1"}, {Guest, Member})
    \/ RemoveRole({"a1"}, {"a2"})
    \/ BlacklistUser({"a1"}, {"u1"})
    \/ UnblacklistUser({"a1"}, {"u1"})
    \/ ProposeAdminTransfer({"a1"}, {"a2"})
    \/ AcceptAdminTransfer({"a2"})
    \/ CreateProposal({"a1"}, ModeActions)
    \/ ApproveProposal
    \/ ExecuteProposal
    \/ AdvanceTime({DefaultTimeLock})

SpecModes == Init /\ [][NextModes]_vars

\* Committee under a policy that asks the membership contract, with a clock
\* that keeps advancing past the expiry of every proposal (they are created
\* before the first tick) and a sweep that is called whenever it has work
LiveInputs == {MsInput(<<"a1", "a2">>, 1, StrictConfig)}

LiveActions == {SetRoleAction("u1", Member), PauseAction}

NextLive ==
    \/ InitializeMultisig(LiveInputs)
    \/ CreateProposalBefore(DefaultTimeLock, {"a1"}, LiveActions)
    \/ ApproveProposal
    \/ RejectProposal
    \/ CancelProposal
    \/ ExecuteProposal
    \/ CleanupExpiredProposals
    \/ AdvanceTime(TimePoints)

SpecLive ==
    /\ Init
    /\ [][NextLive]_vars
    /\ WF_vars(AdvanceTime(TimePoints))
    /\ WF_vars(CleanupExpiredProposals)

(* ------------------------------------------------------------------ *)
(* Properties                                                         *)
(* ------------------------------------------------------------------ *)

Stored == DOMAIN storage.Proposal

Elems(v) == {v[i] : i \in 1..Len(v)}

\* total_created - total_executed - total_rejected - total_expired - pending_count
StatsGap(s) ==
    s.ProposalStats.total_created - s.ProposalStats.total_executed
        - s.ProposalStats.total_rejected - s.ProposalStats.total_expired
        - s.ProposalStats.pending_count

\* C1 as stated: after every operation of the proposal engine
\* pending_count == total_created - total_executed - total_rejected - total_expired.
C1_StatsBalanced == StatsGap(storage) = 0

\* C1 amended: the balance starts at zero, every operation other than a
\* successful cancel_proposal preserves it, and a successful cancel_proposal
\* lowers pending_count by one while raising no terminal counter (the
\* difference grows by exactly one per withdrawn proposal).
C1_StatsBalancedUpToCancel ==
    /\ StatsGap(storage) = 0
    /\ [][StatsGap(storage') = StatsGap(storage) +
            (IF storage' # storage /\ ret'.op = "cancel_proposal" THEN 1 ELSE 0)]_vars

C1_Witness ==
    /\ ret.op = "cancel_proposal"
    /\ StatsGap(storage) = 1
    /\ storage.ProposalStats.total_created = 2
    /\ storage.ProposalStats.total_executed = 1

\* C2: every operation that returns an error leaves the persisted state
\* exactly as it was before the call.
C2_FailedCallsChangeNothing ==
    /\ \A a \in Accounts, id \in ProposalIds, reply \in RepliesOf(storage) :
         LET r == approve_proposal(storage, a, id, now, reply)
         IN r.err # "Ok" => r.s = storage
    /\ \A a \in Accounts, id \in ProposalIds :
         LET r == reject_proposal(storage, a, id, now)
         IN r.err # "Ok" => r.s = storage
    /\ \A a \in Accounts, id \in ProposalIds :
         LET r == cancel_proposal(storage, a, id)
         IN r.err # "Ok" => r.s = storage
    /\ \A id \in ProposalIds, reply \in RepliesOf(storage) :
         LET r == execute_proposal(storage, id, now, reply)
         IN r.err # "Ok" => r.s = storage
    /\ \A a \in Accounts, action \in ProposalActions, reply \in RepliesOf(storage) :
         LET r == create_proposal(storage, a, action, now, reply)
         IN r.err # "Ok" => r.s = storage
    /\ \A i \in MultisigInputs :
         LET r == initialize_multisig(storage, i.admins, i.required_signatures, i.config)
         IN r.err # "Ok" => r.s = storage
    /\ \A a \in Accounts :
         LET r == initialize(storage, a, DefaultConfig)
         IN r.err # "Ok" => r.s = storage

\* The errors raised by the action-specific step of execute_proposal
ActionErrors ==
    {"MembershipTokenNotSet", "MembershipTokenCallFailed", "InsufficientMembership",
     "InvalidMultisigConfig", "DuplicateAdmin", "CannotRemoveLastAdmin",
     "InvalidProposalType"}

\* C3: when the action-specific step of execute_proposal fails, the proposal's
\* executed flag is still false afterwards and the approval that triggered the
\* execution is not recorded.
C3_FailedActionLeavesProposalPending ==
    /\ \A a \in Accounts, id \in Stored, reply \in RepliesOf(storage) :
         LET r == approve_proposal(storage, a, id, now, reply)
         IN r.err \in ActionErrors =>
               /\ HasProposal(r.s, id)
               /\ ~r.s.Proposal[id].executed
               /\ ~Contains(r.s.Proposal[id].approvals, a)
    /\ \A id \in Stored, reply \in RepliesOf(storage) :
         LET r == execute_proposal(storage, id, now, reply)
         IN r.err \in ActionErrors =>
               HasProposal(r.s, id) /\ ~r.s.Proposal[id].executed

\* C4: in every reachable state a proposal whose executed flag is true has at
\* least required_signatures (the value stored in it) distinct accounts in
\* its approvals.
C4_ExecutedHasQuorum ==
    \A id \in Stored :
        storage.Proposal[id].executed =>
            Cardinality(Elems(storage.Proposal[id].approvals))
                >= storage.Proposal[id].required_signatures

C4_Witness ==
    \E id \in Stored :
        /\ storage.Proposal[id].executed
        /\ storage.Proposal[id].required_signatures >= 2
        /\ Cardinality(Elems(storage.Proposal[id].approvals))
              = storage.Proposal[id].required_signatures

\* C5: a proposal classified Critical or TimeLocked carries
\* time_lock_until = created_at + time_lock_duration (of the configuration it
\* was created under), a Standard or Emergency one carries none, the deadline
\* never changes, and the executed flag never becomes true at a clock value
\* below the deadline.
C5_TimeLock ==
    /\ [][\A id \in DOMAIN storage'.Proposal :
            LET p == storage'.Proposal[id] IN
            IF id \in Stored
            THEN /\ p.time_lock_until = storage.Proposal[id].time_lock_until
                 /\ p.created_at = storage.Proposal[id].created_at
                 /\ p.proposal_type = storage.Proposal[id].proposal_type
                 /\ (p.executed /\ ~storage.Proposal[id].executed) =>
                        (p.time_lock_until = <<>> \/ now >= p.time_lock_until[1])
            ELSE /\ p.proposal_type = classify_type(p.action)
                 /\ p.created_at = now
                 /\ p.proposal_type \in {"Critical", "TimeLocked"} =>
                        /\ p.time_lock_until =
                              <<p.created_at + storage.MultiSigConfig[1].time_lock_duration>>
                        /\ ~p.executed
                 /\ p.proposal_type \in {"Standard", "Emergency"} =>
                        p.time_lock_until = <<>>]_vars
    /\ [](\A id \in Stored :
            (storage.Proposal[id].executed /\ storage.Proposal[id].time_lock_until # <<>>)
                => now >= storage.Proposal[id].time_lock_until[1])

C5_Witness ==
    \E id \in Stored :
        /\ storage.Proposal[id].executed
        /\ storage.Proposal[id].proposal_type = "Critical"
        /\ storage.Proposal[id].time_lock_until = <<DefaultTimeLock>>
        /\ storage.Paused

\* A vote by an account that has voted reaches the vote guards when the
\* caller is a committee member and the proposal is neither executed nor
\* expired.
ReachesVoteGuards(id, a) ==
    /\ require_admin(storage, a)
    /\ ~storage.Proposal[id].executed
    /\ ~is_expired(storage.Proposal[id], now)

ExpiredPending(s, t) ==
    {id \in Elems(s.PendingProposalsList) :
        HasProposal(s, id) /\ sweepable(s.Proposal[id], t)}

\* C7: approve_proposal on a pending proposal after its expiry fails with
\* ProposalExpired, removes the proposal from the pending index and from
\* retrieval and raises total_expired by exactly one; a later
\* cleanup_expired_proposals, or a further call on that id, does not count
\* the proposal again.
C7_LazyExpiryCountsOnce ==
    \A id \in Stored, a \in Accounts, reply \in RepliesOf(storage) :
        (/\ require_admin(storage, a)
         /\ ~storage.Proposal[id].executed
         /\ now > storage.Proposal[id].expiry) =>
            LET r == approve_proposal(storage, a, id, now, reply)
                sweep == cleanup_expired_proposals(r.s, now)
                again == approve_proposal(r.s, a, id, now, reply)
            IN /\ r.err = "ProposalExpired"
               /\ ~HasProposal(r.s, id)
               /\ ~Contains(r.s.PendingProposalsList, id)
               /\ r.s.ProposalStats.total_expired = storage.ProposalStats.total_expired + 1
               /\ sweep.count = Cardinality(ExpiredPending(storage, now) \ {id})
               /\ sweep.s.ProposalStats.total_expired =
                     r.s.ProposalStats.total_expired + sweep.count
               /\ again.err = "ProposalNotFound"
               /\ again.s = r.s

C7_Witness ==
    /\ ret.op = "approve_proposal"
    /\ ret.err = "ProposalExpired"
    /\ ~HasProposal(storage, ret.id)
    /\ storage.ProposalStats.total_expired = 1
    /\ storage.ProposalStats.total_created = 2

ExecutedIn(s, id) == HasProposal(s, id) /\ s.Proposal[id].executed

\* C9: the required_signatures of a proposal is fixed at creation (the
\* threshold the configuration of that moment gives its type) and no later
\* UpdateMultisigConfig, AddAdmin or RemoveAdmin changes it; a pending
\* proposal is executed by an approval, or by execute_proposal, exactly when
\* its approval count reaches the stored value (and its time-lock, if any,
\* has passed), whatever the thresholds in force.
C9_ThresholdSnapshot ==
    /\ [][\A id \in DOMAIN storage'.Proposal :
            storage'.Proposal[id].required_signatures =
                IF id \in Stored
                THEN storage.Proposal[id].required_signatures
                ELSE get_required_signatures(storage.MultiSigConfig[1],
                        classify_type(storage'.Proposal[id].action))]_vars
    /\ [](\A id \in Stored :
            LET p == storage.Proposal[id]
                lock_passed == p.time_lock_until = <<>> \/ now >= p.time_lock_until[1]
            IN (~p.executed /\ ~is_expired(p, now)) =>
                 \A reply \in RepliesOf(storage) :
                    /\ ExecutedIn(execute_proposal(storage, id, now, reply).s, id)
                          <=> (Len(p.approvals) >= p.required_signatures /\ lock_passed)
                    /\ \A a \in Accounts :
                          (require_admin(storage, a) /\ approve_vote_error(p, a) = "Ok") =>
                             (ExecutedIn(approve_proposal(storage, a, id, now, reply).s, id)
                                <=> (Len(p.approvals) + 1 >= p.required_signatures
                                        /\ lock_passed)))

C9_Witness ==
    /\ ret.op = "approve_proposal"
    /\ ret.err = "Ok"
    /\ storage.MultiSigConfig # <<>>
    /\ storage.MultiSigConfig[1].required_signatures = 3
    /\ ExecutedIn(storage, ret.id)
    /\ storage.Proposal[ret.id].proposal_type = "Standard"
    /\ storage.Proposal[ret.id].required_signatures = 2
    /\ Len(storage.Proposal[ret.id].approvals) = 2
    /\ storage.UserRole["u1"] = Member

\* C10: in every reachable state of a committee-mode deployment the stored
\* multisig configuration satisfies
\* 0 < required_signatures <= critical_threshold <= emergency_threshold <= |admins|
\* and its time_lock_duration, max_pending_proposals and
\* proposal_expiry_duration are all > 0.
C10_ConfigValid ==
    storage.MultiSigConfig # <<>> =>
        LET c == storage.MultiSigConfig[1] IN
        /\ 0 < c.required_signatures
        /\ c.required_signatures <= c.critical_threshold
        /\ c.critical_threshold <= c.emergency_threshold
        /\ c.emergency_threshold <= Len(c.admins)
        /\ c.time_lock_duration > 0
        /\ c.max_pending_proposals > 0
        /\ c.proposal_expiry_duration > 0

\* C11: the committee admin list never contains the same account twice, in
\* every reachable state (initialize_multisig, AddAdmin and
\* UpdateMultisigConfig never store a list with a repeated account).
C11_NoDuplicateAdmins ==
    storage.MultiSigConfig # <<>> => ~HasDuplicate(storage.MultiSigConfig[1].admins)

\* The results of execute_proposal that come from the guards before the
\* action step
GuardErrors ==
    {"ProposalNotFound", "ProposalAlreadyExecuted", "ProposalExpired",
     "TimeLockActive", "InsufficientApprovals"}

\* C12: executing a RemoveAdmin proposal fails with CannotRemoveLastAdmin and
\* leaves the committee unchanged whenever the committee size after the
\* removal would be less than or equal to emergency_threshold.
C12_RemoveAdminFloor ==
    \A id \in Stored, reply \in RepliesOf(storage) :
        LET p == storage.Proposal[id]
            c == storage.MultiSigConfig[1]
            r == execute_proposal(storage, id, now, reply)
        IN (/\ p.action.kind = "RemoveAdmin"
            /\ r.err \notin GuardErrors
            /\ Len(Without(c.admins, p.action.addr)) <= c.emergency_threshold) =>
                /\ r.err = "CannotRemoveLastAdmin"
                /\ r.s.MultiSigConfig = storage.MultiSigConfig

\* C13: across initialize and initialize_multisig exactly one initialization
\* succeeds per deployment: before it nothing is stored, after it the
\* deployment stays initialized in exactly one of the two modes, and every
\* later call of either returns ConfigurationError and changes no stored
\* record.
C13_InitializedOnce ==
    /\ [][storage.Initialized => storage'.Initialized]_vars
    /\ [](~storage.Initialized => storage = EmptyStorage)
    /\ [](storage.Initialized =>
            /\ (storage.Admin # <<>>) # (storage.MultiSigConfig # <<>>)
            /\ \A a \in Accounts, config \in {DefaultConfig, StrictConfig} :
                 LET r == initialize(storage, a, config)
                 IN r.err = "ConfigurationError" /\ r.s = storage
            /\ \A i \in MultisigInputs :
                 LET r == initialize_multisig(storage, i.admins,
                                              i.required_signatures, i.config)
                 IN r.err = "ConfigurationError" /\ r.s = storage)

C13_Witness ==
    /\ storage.Initialized
    /\ storage.MultiSigConfig # <<>>
    /\ storage.ProposalCounter = 2
    /\ storage.ProposalStats.total_executed = 1
    /\ storage.UserRole["u1"] = Member
    /\ initialize(storage, "u1", DefaultConfig).err = "ConfigurationError"
    /\ initialize_multisig(storage, <<"a1", "a2">>, 1, DefaultConfig).err
          = "ConfigurationError"

C15_ThresholdByAction ==
    [][\A id \in (DOMAIN storage'.Proposal) \ Stored :
         LET p == storage'.Proposal[id]
             c == storage.MultiSigConfig[1]
         IN /\ p.action.kind \in {"SetRole", "Unpause"} =>
                  p.required_signatures = c.required_signatures
            /\ p.action.kind \in {"UpdateConfig", "Pause", "AddAdmin", "RemoveAdmin",
                                  "UpdateMultisigConfig", "BatchBlacklist",
                                  "ScheduleUpgrade"} =>
                  p.required_signatures = c.critical_threshold
            /\ p.action.kind = "EmergencyPause" =>
                  p.required_signatures = c.emergency_threshold]_vars

C15_Witness ==
    /\ storage.MultiSigConfig # <<>>
    /\ storage.MultiSigConfig[1].required_signatures = 1
    /\ storage.MultiSigConfig[1].critical_threshold = 2
    /\ storage.MultiSigConfig[1].emergency_threshold = 3
    /\ \E i, j \in Stored :
          /\ storage.Proposal[i].action.kind = "BatchBlacklist"
          /\ storage.Proposal[i].required_signatures = 2
          /\ storage.Proposal[j].action.kind = "Unpause"
          /\ storage.Proposal[j].required_signatures = 1

\* The effect of an action that has a handler, as visible in storage s
ActionApplied(s, action) ==
    CASE action.kind = "SetRole" -> s.UserRole[action.addr] = action.role
      [] action.kind = "Pause" -> s.Paused
      [] action.kind = "EmergencyPause" -> s.Paused /\ s.EmergencyMode
      [] OTHER -> FALSE

\* The storage outside the proposal engine's own records
Outside(s) ==
    [s EXCEPT !.Proposal = <<>>, !.ProposalCounter = 0,
              !.ProposalStats = ZeroStats, !.PendingProposalsList = <<>>]

\* The outcome of a call that ran the execution of proposal id: it succeeded
\* (executed, action applied, off the pending list, counted) or the
\* action-specific step failed
ExecutionRan(r, id, action) ==
    /\ r.err \in {"Ok"} \cup ActionErrors
    /\ r.err = "Ok" =>
          /\ ExecutedIn(r.s, id)
          /\ ActionApplied(r.s, action)
          /\ ~Contains(r.s.PendingProposalsList, id)
          /\ r.s.ProposalStats.total_executed = storage.ProposalStats.total_executed + 1

\* C16: an approval, or the proposer's automatic approval in create_proposal,
\* that brings the approval count to required_signatures runs the execution
\* within the same call when the proposal has no time-lock or its deadline
\* has passed; in every other case the call succeeds, leaves the proposal
\* pending with executed = false and changes nothing but the proposal
\* engine's own records.
C16_AutoExecution ==
    /\ \A id \in Stored, a \in Accounts, reply \in RepliesOf(storage) :
         LET p == storage.Proposal[id]
             p1 == [p EXCEPT !.approvals = Append(@, a)]
             r == approve_proposal(storage, a, id, now, reply)
         IN (/\ require_admin(storage, a)
             /\ ~p.executed
             /\ ~is_expired(p, now)
             /\ approve_vote_error(p, a) = "Ok") =>
               IF /\ Len(p1.approvals) >= p.required_signatures
                  /\ (p.time_lock_until = <<>> \/ now >= p.time_lock_until[1])
               THEN ExecutionRan(r, id, p.action)
               ELSE /\ r.err = "Ok"
                    /\ r.s = PutProposal(storage, id, p1)
                    /\ Contains(r.s.PendingProposalsList, id)
    /\ \A proposer \in Accounts, action \in ProposalActions, reply \in RepliesOf(storage) :
         LET r == create_proposal(storage, proposer, action, now, reply)
         IN r.id # -1 =>
              LET p == r.s.Proposal[r.id]
              IN IF p.required_signatures <= 1 /\ p.time_lock_until = <<>>
                 THEN ExecutionRan(r, r.id, action)
                 ELSE /\ r.err = "Ok"
                      /\ ~p.executed
                      /\ p.approvals = <<proposer>>
                      /\ Contains(r.s.PendingProposalsList, r.id)
                      /\ Outside(r.s) = Outside(storage)

C16_Witness ==
    /\ ret.op = "approve_proposal"
    /\ ret.err = "Ok"
    /\ ExecutedIn(storage, ret.id)
    /\ storage.Proposal[ret.id].time_lock_until # <<>>
    /\ Len(storage.Proposal[ret.id].approvals)
          = storage.Proposal[ret.id].required_signatures
    /\ ActionApplied(storage, storage.Proposal[ret.id].action)
    /\ \E j \in Stored :
          /\ ~storage.Proposal[j].executed
          /\ storage.Proposal[j].time_lock_until # <<>>
          /\ Len(storage.Proposal[j].approvals) >= storage.Proposal[j].required_signatures

\* Largest committee size for which the rejection threshold is computed
MaxCommittee == 9

\* C17: reject_proposal tears a proposal down exactly when the number of
\* rejections after the new vote is strictly greater than max(1, |admins| / 3)
\* (integer division, current committee size): then it returns
\* ProposalRejected, the proposal leaves the pending index and is no longer
\* retrievable, total_rejected rises by one and pending_count falls by one;
\* otherwise the rejection is recorded and the proposal stays pending.
C17_RejectionThreshold ==
    /\ \A n \in 1..MaxCommittee :
         rejection_threshold([admins |-> [i \in 1..n |-> NoAddr]])
            = (IF n \div 3 > 1 THEN n \div 3 ELSE 1)
    /\ \A id \in Stored, a \in Accounts :
           LET p == storage.Proposal[id]
               p1 == [p EXCEPT !.rejections = Append(@, a)]
               n == Len(storage.MultiSigConfig[1].admins)
               limit == IF n \div 3 > 1 THEN n \div 3 ELSE 1
               r == reject_proposal(storage, a, id, now)
           IN (/\ require_admin(storage, a)
               /\ ~p.executed
               /\ ~is_expired(p, now)
               /\ reject_vote_error(p, a) = "Ok") =>
                 IF Len(p1.rejections) > limit
                 THEN /\ r.err = "ProposalRejected"
                      /\ ~HasProposal(r.s, id)
                      /\ ~Contains(r.s.PendingProposalsList, id)
                      /\ r.s.ProposalStats =
                           [storage.ProposalStats EXCEPT !.total_rejected = @ + 1,
                                                         !.pending_count = @ - 1]
                 ELSE /\ r.err = "Ok"
                      /\ r.s = PutProposal(storage, id, p1)
                      /\ Contains(r.s.PendingProposalsList, id)

C17_Witness ==
    /\ ret.op = "reject_proposal"
    /\ ret.err = "ProposalRejected"
    /\ ~HasProposal(storage, ret.id)
    /\ storage.ProposalStats.total_rejected = 1
    /\ storage.ProposalStats.pending_count = 1
    /\ \E j \in Stored :
          /\ Len(storage.Proposal[j].rejections) = 1
          /\ Contains(storage.PendingProposalsList, j)

\* C18: create_proposal by a committee member fails with
\* MaxProposalsReached, allocating no id and changing no state, whenever the
\* pending count is at or above max_pending_proposals; the pending count is
\* the length of the pending index, and a create_proposal that allocates an
\* id never leaves more than max_pending_proposals pending proposals.
C18_PendingLimit ==
    /\ storage.ProposalStats.pending_count = Len(storage.PendingProposalsList)
    /\ storage.MultiSigConfig # <<>> =>
         \A proposer \in Accounts, action \in LimitActions, reply \in RepliesOf(storage) :
            LET c == storage.MultiSigConfig[1]
                r == create_proposal(storage, proposer, action, now, reply)
            IN /\ (/\ require_admin(storage, proposer)
                   /\ storage.ProposalStats.pending_count >= c.max_pending_proposals) =>
                     /\ r.err = "MaxProposalsReached"
                     /\ r.id = -1
                     /\ r.s = storage
               /\ r.id # -1 =>
                     /\ r.id = storage.ProposalCounter
                     /\ Len(r.s.PendingProposalsList) <= c.max_pending_proposals

C18_Witness ==
    /\ storage.MultiSigConfig # <<>>
    /\ storage.MultiSigConfig[1].max_pending_proposals = 1
    /\ storage.ProposalStats.pending_count = 2
    /\ storage.ProposalCounter = 3
    /\ create_proposal(storage, "a1", SetRoleAction("u1", Member), now,
                       [ok |-> TRUE, balance |-> 0]).err = "MaxProposalsReached"

\* C19: cancel_proposal succeeds only for the account that created the
\* proposal and only while executed is false; on success the proposal leaves
\* the pending index and retrieval, pending_count falls by one and
\* total_rejected, total_executed and total_expired (and everything else)
\* are unchanged; a call by any other account fails with Unauthorized and
\* changes nothing.
C19_CancelByProposer ==
    \A id \in Stored, a \in Accounts :
        LET p == storage.Proposal[id]
            r == cancel_proposal(storage, a, id)
        IN /\ (r.err = "Ok") <=> (a = p.proposer /\ ~p.executed)
           /\ a # p.proposer => (r.err = "Unauthorized" /\ r.s = storage)
           /\ r.err # "Ok" => r.s = storage
           /\ r.err = "Ok" =>
                /\ ~HasProposal(r.s, id)
                /\ ~Contains(r.s.PendingProposalsList, id)
                /\ Contains(storage.PendingProposalsList, id)
                /\ r.s.ProposalStats =
                      [storage.ProposalStats EXCEPT !.pending_count = @ - 1]
                /\ \A j \in Stored \ {id} :
                      /\ HasProposal(r.s, j)
                      /\ r.s.Proposal[j] = storage.Proposal[j]
                      /\ Contains(r.s.PendingProposalsList, j)
                            <=> Contains(storage.PendingProposalsList, j)
                /\ Outside(r.s) = Outside(storage)

C19_Witness ==
    /\ ret.op = "cancel_proposal"
    /\ ret.caller = "a1"
    /\ ~HasProposal(storage, ret.id)
    /\ storage.ProposalStats.total_created = 2
    /\ storage.ProposalStats.pending_count = 1
    /\ storage.ProposalStats.total_rejected = 0
    /\ \E j \in Stored :
          /\ ~storage.Proposal[j].executed
          /\ cancel_proposal(storage, "a2", j).err = "Unauthorized"

\* C20: cleanup_expired_proposals removes from the pending index (and from
\* storage) exactly the proposals on it whose expiry is strictly before the
\* clock and that are not executed, raises total_expired and lowers
\* pending_count by the number removed, returns that number and leaves every
\* other proposal untouched; a second call at the same clock value removes
\* nothing and returns 0.
C20_SweepExact ==
    LET expired == {id \in Elems(storage.PendingProposalsList) :
                        /\ HasProposal(storage, id)
                        /\ storage.Proposal[id].expiry < now
                        /\ ~storage.Proposal[id].executed}
        r == cleanup_expired_proposals(storage, now)
        again == cleanup_expired_proposals(r.s, now)
    IN /\ r.count = Cardinality(expired)
       /\ DOMAIN r.s.Proposal = Stored \ expired
       /\ \A id \in Stored \ expired : r.s.Proposal[id] = storage.Proposal[id]
       /\ r.s.PendingProposalsList =
             SelectSeq(storage.PendingProposalsList, LAMBDA id : id \notin expired)
       /\ r.s.ProposalStats =
             [storage.ProposalStats EXCEPT !.total_expired = @ + r.count,
                                           !.pending_count = @ - r.count]
       /\ Outside(r.s) = Outside(storage)
       /\ r.s.ProposalCounter = storage.ProposalCounter
       /\ again.count = 0
       /\ again.s = r.s

C20_Witness ==
    /\ ret.op = "cleanup_expired_proposals"
    /\ ret.val = 1
    /\ storage.ProposalStats.total_expired = 1
    /\ Len(storage.PendingProposalsList) = 1
    /\ \E j \in Stored :
          /\ Contains(storage.PendingProposalsList, j)
          /\ storage.Proposal[j].created_at = DefaultTimeLock
          /\ ~is_expired(storage.Proposal[j], now)

\* C21: in every reachable state the pending index contains, without
\* repetition, exactly the ids of the proposals that have a stored record
\* with executed = false, and pending_count is the number of ids in it.
C21_PendingIndexExact ==
    /\ ~HasDuplicate(storage.PendingProposalsList)
    /\ Elems(storage.PendingProposalsList)
          = {id \in Stored : ~storage.Proposal[id].executed}
    /\ storage.ProposalStats.pending_count = Len(storage.PendingProposalsList)

\* C22: require_admin succeeds, in committee mode, exactly for the accounts
\* of the committee's admin list and, in single-admin mode, exactly for the
\* single stored admin, whatever roles have been assigned.
C22_RequireAdminByMode ==
    \A caller \in Accounts :
        require_admin(storage, caller) <=>
            IF is_multisig_enabled(storage)
            THEN Contains(storage.MultiSigConfig[1].admins, caller)
            ELSE storage.Admin = <<caller>>

\* TRUE when the step executed a stored proposal whose action is of one of
\* the Kinds: its record went from executed = false (or absent) to true
ExecutedStep(Kinds) ==
    \E id \in ProposalIds :
        /\ ~ExecutedIn(storage, id)
        /\ ExecutedIn(storage', id)
        /\ storage'.Proposal[id].action.kind \in Kinds

\* C23: in committee mode the direct update_config, pause and unpause fail
\* with AdminRequired for every caller, committee members included, and leave
\* the configuration and the paused flag unchanged; the two change only in a
\* step that executes a proposal carrying such an action.
C23_DirectCallsRefused ==
    /\ [](is_multisig_enabled(storage) =>
            \A caller \in Accounts, config \in {DefaultConfig, StrictConfig, NoTokenConfig} :
               /\ update_config(storage, caller, config) = Res(storage, "AdminRequired")
               /\ pause(storage, caller) = Res(storage, "AdminRequired")
               /\ unpause(storage, caller) = Res(storage, "AdminRequired"))
    /\ [][is_multisig_enabled(storage) =>
            /\ storage'.Config # storage.Config => ExecutedStep({"UpdateConfig"})
            /\ storage'.Paused # storage.Paused =>
                 ExecutedStep({"Pause", "Unpause", "EmergencyPause"})]_vars

\* The configuration and the paused flag have both been changed by proposals
\* while direct calls were being made
C23_Witness ==
    /\ is_multisig_enabled(storage)
    /\ storage.Config = StrictConfig
    /\ storage.Paused
    /\ \E i, j \in Stored :
          /\ ExecutedIn(storage, i) /\ storage.Proposal[i].action.kind = "UpdateConfig"
          /\ ExecutedIn(storage, j) /\ storage.Proposal[j].action.kind = "Pause"

\* C24: accept_admin_transfer succeeds only when a pending transfer exists,
\* the caller is its proposed admin and the clock has not passed its expiry;
\* on success the stored admin is the new admin, the new admin's role is
\* Admin, the old stored admin's role is Guest and the pending record is
\* cleared, so that the old admin fails require_admin and the new one passes
\* it; on failure nothing changes.
C24_AcceptAdminTransfer ==
    \A new_admin \in Accounts :
        LET r == accept_admin_transfer(storage, new_admin, now)
        IN IF r.err = "Ok"
           THEN /\ storage.PendingAdminTransfer # <<>>
                /\ storage.PendingAdminTransfer[1].proposed_admin = new_admin
                /\ now <= storage.PendingAdminTransfer[1].expiry
                /\ r.s.Admin = <<new_admin>>
                /\ get_role(r.s, new_admin) = Admin
                /\ get_role(r.s, storage.Admin[1]) = Guest
                /\ r.s.PendingAdminTransfer = <<>>
                /\ ~require_admin(r.s, storage.Admin[1])
                /\ require_admin(r.s, new_admin)
           ELSE r.s = storage

\* C25: on an initialized, unpaused system check_access never returns an
\* error: it returns false for a blacklisted user, for every required role,
\* and otherwise true exactly when the user's stored role is at least
\* required_role and the membership policy for required_role is met; its
\* only errors are NotInitialized and ContractPaused.
C25_CheckAccess ==
    \A user \in Accounts, required_role \in {Guest, Member, Admin},
       reply \in RepliesOf(storage) :
        LET r == check_access(storage, user, required_role, reply)
        IN /\ r.err \in {"Ok", "NotInitialized", "ContractPaused"}
           /\ (storage.Initialized /\ ~storage.Paused) =>
                /\ r.err = "Ok"
                /\ r.val <=>
                     /\ user \notin storage.Blacklisted
                     /\ get_role(storage, user) >= required_role
                     /\ validate_role_assignment(storage, required_role, reply) = "Ok"

\* The error of the first guard of set_role that refuses, "Ok" when the
\* system is initialized and unpaused, the target is not blacklisted and the
\* caller passes require_admin
SetRoleGuard(caller, user) ==
    IF ~storage.Initialized THEN "NotInitialized"
    ELSE IF storage.Paused THEN "ContractPaused"
    ELSE IF user \in storage.Blacklisted THEN "Unauthorized"
    ELSE IF ~require_admin(storage, caller) THEN "AdminRequired"
    ELSE "Ok"

\* C26: set_role changes a role only when the system is initialized, not
\* paused, the target is not blacklisted and the caller passes require_admin;
\* otherwise it fails with NotInitialized, ContractPaused, Unauthorized or
\* AdminRequired respectively and every role is unchanged.
C26_SetRoleGuards ==
    \A caller \in Accounts, user \in Accounts, role \in {Guest, Member, Admin},
       reply \in RepliesOf(storage) :
        LET r == set_role(storage, caller, user, role, reply)
        IN /\ SetRoleGuard(caller, user) # "Ok" =>
                r = Res(storage, SetRoleGuard(caller, user))
           /\ r.s.UserRole # storage.UserRole => SetRoleGuard(caller, user) = "Ok"
           /\ r.err = "Ok" =>
                r.s = [storage EXCEPT !.UserRole[user] = role]
           /\ r.err # "Ok" => r.s = storage

\* set_role has just assigned a role while a blacklisted account exists for
\* which the same caller is refused
C26_Witness ==
    /\ ret.op = "set_role"
    /\ ret.err = "Ok"
    /\ storage.UserRole["a2"] = Member
    /\ "u1" \in storage.Blacklisted
    /\ \A reply \in RepliesOf(storage) :
          set_role(storage, ret.caller, "u1", Member, reply) = Res(storage, "Unauthorized")

C28_ExpiryBound ==
    /\ [](\A id \in Stored, a \in Accounts, reply \in RepliesOf(storage) :
            LET p == storage.Proposal[id]
                ra == approve_proposal(storage, a, id, now, reply)
                rr == reject_proposal(storage, a, id, now)
                re == execute_proposal(storage, id, now, reply)
            IN ~p.executed =>
                 /\ now > p.expiry =>
                      /\ require_admin(storage, a) => ra.err = "ProposalExpired"
                      /\ re.err = "ProposalExpired"
                      /\ ~ExecutedIn(ra.s, id) /\ ~ExecutedIn(re.s, id)
                      /\ Outside(ra.s) = Outside(storage)
                      /\ Outside(re.s) = Outside(storage)
                 /\ now = p.expiry =>
                      /\ (require_admin(storage, a) /\ approve_vote_error(p, a) = "Ok") =>
                            /\ ra.err \in {"Ok"} \cup ActionErrors
                            /\ HasProposal(ra.s, id)
                            /\ Contains(ra.s.Proposal[id].approvals, a)
                      /\ (require_admin(storage, a) /\ reject_vote_error(p, a) = "Ok") =>
                            rr.err \in {"Ok", "ProposalRejected"}
                      /\ (has_enough_approvals(p) /\ ~time_lock_active(p, now)) =>
                            ExecutionRan(re, id, p.action))
    /\ [][\A id \in ProposalIds :
            (~ExecutedIn(storage, id) /\ ExecutedIn(storage', id)) =>
                now <= storage'.Proposal[id].expiry]_vars

\* A proposal has just been executed at a clock value equal to its expiry
C28_Witness ==
    /\ ret.op \in {"approve_proposal", "execute_proposal"}
    /\ ret.err = "Ok"
    /\ ExecutedIn(storage, ret.id)
    /\ now = storage.Proposal[ret.id].expiry
    /\ ActionApplied(storage, storage.Proposal[ret.id].action)

\* TRUE when account a is in the vote set (approvals or rejections) votes of
\* proposal id in s
Voted(s, id, votes, a) ==
    HasProposal(s, id) /\ Contains(s.Proposal[id][votes], a)

\* C29: create_proposal, approve_proposal and reject_proposal called by an
\* account that does not pass require_admin fail with AdminRequired and change
\* no proposal, vote set or counter; every account in a proposal's approvals
\* or rejections was a member of the committee when it voted.
C29_VotersAreAdmins ==
    /\ [](\A a \in Accounts :
            ~require_admin(storage, a) =>
               /\ \A action \in CommitteeActions, reply \in RepliesOf(storage) :
                     create_proposal(storage, a, action, now, reply)
                        = [s |-> storage, err |-> "AdminRequired", id |-> -1]
               /\ \A id \in ProposalIds, reply \in RepliesOf(storage) :
                     /\ approve_proposal(storage, a, id, now, reply)
                           = Res(storage, "AdminRequired")
                     /\ reject_proposal(storage, a, id, now)
                           = Res(storage, "AdminRequired"))
    /\ [][\A id \in ProposalIds, a \in Accounts, votes \in {"approvals", "rejections"} :
            (Voted(storage', id, votes, a) /\ ~Voted(storage, id, votes, a)) =>
                /\ is_multisig_enabled(storage)
                /\ Contains(storage.MultiSigConfig[1].admins, a)]_vars

\* A stored proposal carries the vote of an account that has left the
\* committee since, next to the vote of a current member
C29_Witness ==
    /\ is_multisig_enabled(storage)
    /\ \E id \in Stored, a, b \in Accounts :
          /\ Voted(storage, id, "approvals", a)
          /\ ~Contains(storage.MultiSigConfig[1].admins, a)
          /\ Voted(storage, id, "rejections", b)
          /\ Contains(storage.MultiSigConfig[1].admins, b)

\* TRUE when the membership policy of configuration config lets an account
\* whose balance call is answered by reply hold role
PolicyMet(config, role, reply) ==
    \/ ~config.require_membership_for_roles
    \/ role = Guest
    \/ /\ config.membership_token_contract # <<>>
       /\ reply.ok
       /\ reply.balance >= config.min_token_balance

\* C30: the execution of a SetRole proposal evaluates the membership policy
\* in force when it executes, not the one in force at creation: if the
\* configuration has changed so that the target no longer satisfies it (no
\* membership contract set, balance call fails, balance below the minimum)
\* the execution fails and the target's role is unchanged.
C30_PolicyAtExecution ==
    \A id \in Stored, a \in Accounts, reply \in RepliesOf(storage) :
        LET p == storage.Proposal[id]
            r == approve_proposal(storage, a, id, now, reply)
        IN (/\ p.action.kind = "SetRole"
            /\ ~p.executed
            /\ ~is_expired(p, now)
            /\ require_admin(storage, a)
            /\ approve_vote_error(p, a) = "Ok"
            /\ Len(p.approvals) + 1 >= p.required_signatures) =>
              IF PolicyMet(storage.Config, p.action.role, reply)
              THEN /\ r.err = "Ok"
                   /\ r.s.UserRole[p.action.addr] = p.action.role
              ELSE /\ r.err \in {"MembershipTokenNotSet", "MembershipTokenCallFailed",
                                 "InsufficientMembership"}
                   /\ r.s.UserRole = storage.UserRole

\* The approval that completed a SetRole proposal created under the
\* permissive policy has just failed under the stricter policy that an
\* executed UpdateConfig proposal put in force since
C30_Witness ==
    /\ ret.op = "approve_proposal"
    /\ ret.err \in {"MembershipTokenNotSet", "MembershipTokenCallFailed",
                    "InsufficientMembership"}
    /\ HasProposal(storage, ret.id)
    /\ storage.Proposal[ret.id].action.kind = "SetRole"
    /\ storage.Proposal[ret.id].created_at < now
    /\ storage.UserRole["u1"] = Guest
    /\ storage.Config.require_membership_for_roles
    /\ \E j \in Stored :
          ExecutedIn(storage, j) /\ storage.Proposal[j].action.kind = "UpdateConfig"

\* TRUE when the committee has exactly two members
PairCommittee(s) == is_multisig_enabled(s) /\ Len(s.MultiSigConfig[1].admins) = 2

\* C31: in a committee of exactly two admins the rejection threshold is 1 and
\* a pending proposal is torn down with ProposalRejected by the rejection that
\* brings its rejections to two (total_rejected rises); the two rejecters and
\* the approving proposer are three different accounts.
C31_PairRejection ==
    /\ [](PairCommittee(storage) =>
            /\ rejection_threshold(storage.MultiSigConfig[1]) = 1
            /\ \A id \in Stored, a \in Accounts :
                 LET p == storage.Proposal[id]
                     r == reject_proposal(storage, a, id, now)
                 IN (/\ ~p.executed
                     /\ ~is_expired(p, now)
                     /\ Contains(storage.MultiSigConfig[1].admins, a)
                     /\ ~Contains(p.approvals, a)
                     /\ ~Contains(p.rejections, a)) =>
                       IF Len(p.rejections) + 1 > 1
                       THEN /\ r.err = "ProposalRejected"
                            /\ ~HasProposal(r.s, id)
                            /\ ~Contains(r.s.PendingProposalsList, id)
                            /\ r.s.ProposalStats.total_rejected
                                  = storage.ProposalStats.total_rejected + 1
                       ELSE /\ r.err = "Ok"
                            /\ r.s.Proposal[id].rejections = <<a>>
                            /\ Contains(r.s.PendingProposalsList, id))
    /\ [][\A id \in ProposalIds :
            (/\ PairCommittee(storage)
             /\ HasProposal(storage, id)
             /\ ~HasProposal(storage', id)
             /\ storage'.ProposalStats.total_rejected
                   > storage.ProposalStats.total_rejected) =>
               Cardinality(Elems(storage.Proposal[id].approvals)
                              \cup Elems(storage.Proposal[id].rejections)
                              \cup {ret'.caller}) >= 3]_vars

\* A committee of two has just torn a pending proposal down by rejections
C31_Witness ==
    /\ PairCommittee(storage)
    /\ ret.op = "reject_proposal"
    /\ ret.err = "ProposalRejected"
    /\ Contains(storage.MultiSigConfig[1].admins, ret.caller)
    /\ storage.ProposalStats.total_rejected >= 1
    /\ ~HasProposal(storage, ret.id)
    /\ ~Contains(storage.PendingProposalsList, ret.id)

\* The two authority modes of an initialized deployment
SingleAdminMode(s) == s.Initialized /\ ~is_multisig_enabled(s)

CommitteeMode(s) == s.Initialized /\ is_multisig_enabled(s)

\* The mode of a deployment is fixed by its initialization: a single-admin
\* deployment has a stored admin and never a multisig configuration; a
\* committee deployment keeps its configuration, has no stored admin and no
\* pending admin transfer, and refuses propose_admin_transfer
ModeStays ==
    /\ [](SingleAdminMode(storage) => storage.Admin # <<>>)
    /\ [](CommitteeMode(storage) =>
            /\ storage.Admin = <<>>
            /\ storage.PendingAdminTransfer = <<>>
            /\ \A current_admin \in Accounts, new_admin \in Accounts :
                 LET r == propose_admin_transfer(storage, current_admin, new_admin, now)
                 IN r.err \in {"AdminRequired", "InvalidAddress"} /\ r.s = storage)
    /\ [][storage.Initialized =>
            /\ storage'.Initialized
            /\ is_multisig_enabled(storage') = is_multisig_enabled(storage)]_vars

\* C32 (as stated): the authority mode never changes after initialization,
\* and in a single-admin deployment create_proposal always fails with
\* MultisigNotEnabled.
C32_ModeFixed ==
    /\ ModeStays
    /\ [](SingleAdminMode(storage) =>
            \A proposer \in Accounts, action \in ModeActions, reply \in RepliesOf(storage) :
               create_proposal(storage, proposer, action, now, reply)
                  = [s |-> storage, err |-> "MultisigNotEnabled", id |-> -1])

\* C32 (amended): the authority mode never changes after initialization, and
\* in a single-admin deployment create_proposal always fails and writes
\* nothing: with MultisigNotEnabled for a caller that passes require_admin,
\* with AdminRequired for any other caller.
C32_ModeFixedByCaller ==
    /\ ModeStays
    /\ [](SingleAdminMode(storage) =>
            \A proposer \in Accounts, action \in ModeActions, reply \in RepliesOf(storage) :
               create_proposal(storage, proposer, action, now, reply)
                  = [s |-> storage,
                     err |-> IF require_admin(storage, proposer)
                             THEN "MultisigNotEnabled" ELSE "AdminRequired",
                     id |-> -1])

\* A single-admin deployment whose admin transfer has completed: the new
\* admin is answered MultisigNotEnabled, the old one AdminRequired
C32_Witness ==
    /\ SingleAdminMode(storage)
    /\ ret.op = "accept_admin_transfer"
    /\ storage.Admin = <<"a2">>
    /\ create_proposal(storage, "a2", PauseAction, now, [ok |-> TRUE, balance |-> 0]).err
          = "MultisigNotEnabled"
    /\ create_proposal(storage, "a1", PauseAction, now, [ok |-> TRUE, balance |-> 0]).err
          = "AdminRequired"

\* C33: in committee mode, in every reachable state, every account of the
\* committee's admin list has the stored role Admin.
C33_CommitteeHoldsAdminRole ==
    CommitteeMode(storage) =>
        \A i \in 1..Len(storage.MultiSigConfig[1].admins) :
            get_role(storage, storage.MultiSigConfig[1].admins[i]) = Admin

\* C34: in single-admin mode, in every reachable state after initialize, the
\* stored admin has the role Admin and passes require_admin.
C34_StoredAdminHoldsAdminRole ==
    SingleAdminMode(storage) =>
        /\ get_role(storage, storage.Admin[1]) = Admin
        /\ require_admin(storage, storage.Admin[1])

\* C35: in committee mode with required_signatures >= 2 no account's role and
\* no account's blacklist flag changes by a call of a single member alone:
\* every such change happens in a step that executes a proposal carrying at
\* least required_signatures approvals.
C35_ChangesNeedQuorum ==
    [][(/\ CommitteeMode(storage)
        /\ storage.MultiSigConfig[1].required_signatures >= 2
        /\ \/ storage'.UserRole # storage.UserRole
           \/ storage'.Blacklisted # storage.Blacklisted) =>
          \E id \in ProposalIds :
              /\ ~ExecutedIn(storage, id)
              /\ ExecutedIn(storage', id)
              /\ Len(storage'.Proposal[id].approvals)
                    >= storage.MultiSigConfig[1].required_signatures]_vars

\* C36: a role assignment made by executing a SetRole proposal respects the
\* guards of the direct set_role: no role is changed by a proposal execution
\* while the contract is paused, and no blacklisted account is assigned a role
\* by a proposal execution.
C36_ProposalSetRoleGuards ==
    [][\A id \in ProposalIds :
          (/\ ~ExecutedIn(storage, id)
           /\ ExecutedIn(storage', id)
           /\ storage'.Proposal[id].action.kind = "SetRole"
           /\ storage'.UserRole # storage.UserRole) =>
             /\ ~storage.Paused
             /\ ~is_blacklisted(storage, storage'.Proposal[id].action.addr)]_vars

\* C37: in every reachable state is_emergency_mode implies is_paused.
C37_EmergencyImpliesPaused ==
    is_emergency_mode(storage) => storage.Paused

\* C38: every time-locked proposal has a non-empty execution window: under
\* every configuration that validate accepts, a stored proposal has
\* time_lock_until <= expiry.
C38_ExecutionWindow ==
    \A id \in Stored :
        LET p == storage.Proposal[id]
        IN (validate(storage.MultiSigConfig[1]) /\ p.time_lock_until # <<>>) =>
              p.time_lock_until[1] <= p.expiry

\* C39: every created proposal eventually leaves the pending index, the clock
\* advancing and cleanup_expired_proposals being called after its expiry.
C39_LeavesPendingIndex ==
    \A id \in ProposalIds :
        Contains(storage.PendingProposalsList, id)
            ~> ~Contains(storage.PendingProposalsList, id)

\* The action kinds that have no arm in execute_proposal
UnimplementedKinds == {"TransferAdmin", "ScheduleUpgrade", "EmergencyAdminTransfer"}

\* TRUE when two storage values agree on the single admin, the committee,
\* the roles and the pause flags
SameAuthority(s1, s2) ==
    /\ s1.Admin = s2.Admin
    /\ s1.MultiSigConfig = s2.MultiSigConfig
    /\ s1.UserRole = s2.UserRole
    /\ s1.Paused = s2.Paused
    /\ s1.EmergencyMode = s2.EmergencyMode

\* C40: a TransferAdmin, ScheduleUpgrade or EmergencyAdminTransfer proposal is
\* never observed with executed = true: every execution attempt, by
\* execute_proposal or by the approval that reaches the threshold, fails with
\* InvalidProposalType and leaves the stored admin, the committee, the roles
\* and the pause flags unchanged.
C40_UnimplementedNeverExecuted ==
    /\ \A id \in Stored :
         storage.Proposal[id].action.kind \in UnimplementedKinds
            => ~storage.Proposal[id].executed
    /\ \A id \in Stored, reply \in RepliesOf(storage) :
         LET r == execute_proposal(storage, id, now, reply)
         IN (/\ storage.Proposal[id].action.kind \in UnimplementedKinds
             /\ r.err \notin {"ProposalExpired", "TimeLockActive",
                              "InsufficientApprovals"})
               => /\ r.err = "InvalidProposalType"
                  /\ ~ExecutedIn(r.s, id)
                  /\ SameAuthority(r.s, storage)
    /\ \A a \in Accounts, id \in Stored, reply \in RepliesOf(storage) :
         LET r == approve_proposal(storage, a, id, now, reply)
         IN storage.Proposal[id].action.kind \in UnimplementedKinds
               => /\ r.err # "Ok" => SameAuthority(r.s, storage)
                  /\ ~ExecutedIn(r.s, id)

====
